---- MODULE Spec2Model ----
(***************************************************************************)
(* Hardware lifecycle of the rpigotchi firmware: GPIO pin acquisition with *)
(* readiness polling, the e-paper panel sequence (init, full refresh,      *)
(* quick refresh, sleep), the Ctrl+C cancellation flag and process exit,   *)
(* for the three program variants main.rs, new.rs and old.rs.              *)
(***************************************************************************)
EXTENDS Integers, Sequences, FiniteSets, TLC

VARIABLES
    entry,           \* which entry point runs: see Entries
    proc,            \* process state: running / exit_ok / exit_err / panic / killed
    mpc,             \* position of the main thread
    conns,           \* websocket connections accepted (old.rs)
    pc,              \* position of the code that owns the display
    result,          \* Result returned by the display code ("none" while running)
    pinIdx,          \* index of the pin being acquired / released
    elapsed,         \* ms since `start` in the export wait loop
    polls,           \* is_exported() calls made for the current pin
    sysfs,           \* kernel view of each line: none / pending / ready
    hw,              \* hardware calls completed so far, in order
    running,         \* the AtomicBool `running`
    handler,         \* TRUE once ctrlc::set_handler has installed the handler
    hpc,             \* position of the ctrlc handler thread
    signals,         \* interrupts delivered so far
    refresh,         \* RefreshLut the panel driver is in
    i,               \* spinner phase / loop index
    cycles,          \* completed loop cycles of run (main.rs)
    pushesAfterStop, \* pushes issued after the handler stored false
    shutdownCalls,   \* calls of EpaperApp::shutdown
    frame,           \* what the framebuffer `display` holds
    stdout           \* lines printed so far

vars == <<entry, proc, mpc, conns, pc, result, pinIdx, elapsed, polls, sysfs, hw,
          running, handler, hpc, signals, refresh, i, cycles, pushesAfterStop,
          shutdownCalls, frame, stdout>>

\* variable groups for UNCHANGED clauses
mainVars == <<entry, mpc, conns>>
pinVars  == <<pinIdx, elapsed, polls>>
sigVars  == <<running, handler, hpc, signals, pushesAfterStop>>
loopVars == <<refresh, i, cycles, frame>>

-----------------------------------------------------------------------------
\* bounds of the model
MaxCycles  == 5   \* loop cycles of run explored
MaxSignals == 2   \* interrupts delivered
MaxJitter  == 1   \* ms by which thread::sleep may overrun
MaxConns   == 1   \* websocket connections accepted
PollCap    == 24  \* polls explored in the unbounded wait of old.rs

\* program constants
Timeout         == 100
PollInterval    == 5
OldPollInterval == 10
SpinnerLen      == 4
SpinnerIters    == 10
PanelWidth      == 250  \* the 250 of `250 - (time_str.len() as i32 * 10)`
AssumedWidth    == 10   \* the 10 of the same expression
FontWidth       == 6    \* glyph width of FONT_6X10, the font of draw_text

\* let spinner = ["|", "/", "-", "\\"]
Spinner == <<"|", "/", "-", "\\">>

\* wall-clock readings (hour, minute, second) Local::now() is drawn from
Times == {<<0, 0, 0>>, <<9, 5, 7>>, <<23, 59, 59>>}

Digit(n) == <<"0", "1", "2", "3", "4", "5", "6", "7", "8", "9">>[n + 1]

\* a %H, %M or %S field: two digits, zero padded
Pad2(n) == <<Digit(n \div 10), Digit(n % 10)>>

\* now.format("%H:%M:%S").to_string()
FormatTime(t) == Pad2(t[1]) \o <<":">> \o Pad2(t[2]) \o <<":">> \o Pad2(t[3])

\* the x passed to draw_text for the time readout
TimeX(str) == PanelWidth - Len(str) * AssumedWidth

\* framebuffer contents: kind, spinner glyph, time text and its x origin
Frame(kind, glyph, time, x) == [kind |-> kind, glyph |-> glyph, time |-> time, x |-> x]

\* display.clear(Color::White)
Blank == Frame("blank", "", <<>>, 0)

Entries == {"main_app", "main_threaded", "new_app", "new_threaded", "old"}
Pins    == {"cs", "busy", "dc", "rst"}

Variant == CASE entry \in {"main_app", "main_threaded"} -> "main"
             [] entry \in {"new_app", "new_threaded"}   -> "new"
             [] OTHER                                   -> "old"

Threaded == entry \in {"main_threaded", "new_threaded", "old"}

\* order in which new() / eink_hello() acquire the lines
PinOrder == IF Variant = "old" THEN <<"busy", "dc", "rst", "cs">>
                               ELSE <<"cs", "busy", "dc", "rst">>

\* order in which shutdown() of new.rs unexports the lines
ShutdownOrder == <<"cs", "busy", "dc", "rst">>

IsOutput(p) == p # "busy"

Op(op, arg, ok) == [op |-> op, arg |-> arg, ok |-> ok]

-----------------------------------------------------------------------------
Init ==
    /\ entry \in Entries
    /\ proc = "running"
    /\ mpc = "start"
    /\ conns = 0
    /\ pc = "idle"
    /\ result = "none"
    /\ pinIdx = 1
    /\ elapsed = 0
    /\ polls = 0
    /\ sysfs \in {[p \in Pins |-> "none"], [p \in Pins |-> "ready"]}
    /\ hw = <<>>
    /\ running = TRUE
    /\ handler = FALSE
    /\ hpc = "idle"
    /\ signals = 0
    /\ refresh = "Full"
    /\ i = 0
    /\ cycles = 0
    /\ pushesAfterStop = 0
    /\ shutdownCalls = 0
    /\ frame = Frame("default", "", <<>>, 0)
    /\ stdout = <<>>

\* the display code returns r to its caller
Return(r) == pc' = "returned" /\ result' = r

\* the display code panics: in the main thread the process dies, in a spawned
\* thread the panic is handed to join()
Panic ==
    /\ pc' = "returned"
    /\ result' = "panic"
    /\ proc' = IF Threaded THEN proc ELSE "panic"

\* after a pin is set up: continue with the next one, or with the panel
NextPin ==
    IF pinIdx < Len(PinOrder)
    THEN pinIdx' = pinIdx + 1 /\ pc' = "pin_export"
    ELSE pinIdx' = pinIdx /\ pc' = "epd_new"

-----------------------------------------------------------------------------
\* main thread

\* main() of main.rs / run_epaper_app(): the display code runs on the main thread
run_epaper_app ==
    /\ proc = "running" /\ mpc = "start"
    /\ entry \in {"main_app", "new_app"}
    /\ mpc' = "app"
    /\ pc' = "spi_open"
    /\ UNCHANGED <<entry, proc, conns, result, pinVars, sysfs, hw, sigVars,
                   loopVars, shutdownCalls, stdout>>

\* run_epaper_threaded(): thread::spawn of the display code
run_epaper_threaded_spawn ==
    /\ proc = "running" /\ mpc = "start"
    /\ entry \in {"main_threaded", "new_threaded"}
    /\ mpc' = "join"
    /\ pc' = "spi_open"
    /\ UNCHANGED <<entry, proc, conns, result, pinVars, sysfs, hw, sigVars,
                   loopVars, shutdownCalls, stdout>>

\* the caller gets the Result back (directly or through handle.join()), prints
\* "Finished tests" on Ok, and main returns: the process exits
main_return ==
    /\ proc = "running" /\ mpc \in {"app", "join"}
    /\ pc = "returned"
    /\ proc' = IF result = "Ok" THEN "exit_ok" ELSE "exit_err"
    /\ stdout' = IF result = "Ok" THEN Append(stdout, "Finished tests") ELSE stdout
    /\ mpc' = "exited"
    /\ UNCHANGED <<entry, conns, pc, result, pinVars, sysfs, hw, sigVars,
                   loopVars, shutdownCalls>>

-----------------------------------------------------------------------------
\* EpaperApp::new

new_spi_open ==
    /\ proc = "running" /\ pc = "spi_open" /\ Variant # "old"
    /\ \E ok \in BOOLEAN :
          /\ hw' = Append(hw, Op("spi_open", "-", ok))
          /\ IF ok THEN pc' = "spi_configure" /\ result' = result
                   ELSE Return("DisplayInit")
    /\ UNCHANGED <<mainVars, proc, pinVars, sysfs, sigVars, loopVars,
                   shutdownCalls, stdout>>

new_spi_configure ==
    /\ proc = "running" /\ pc = "spi_configure" /\ Variant # "old"
    /\ \E ok \in BOOLEAN :
          /\ hw' = Append(hw, Op("spi_configure", "-", ok))
          /\ IF ok THEN pc' = "pin_export" /\ result' = result
                   ELSE Return("DisplayInit")
    /\ UNCHANGED <<mainVars, proc, pinVars, sysfs, sigVars, loopVars,
                   shutdownCalls, stdout>>

\* SysfsPin::new + pin.export(): no write when the line is already exported
setup_pin_export ==
    /\ proc = "running" /\ pc = "pin_export" /\ Variant # "old"
    /\ LET p == PinOrder[pinIdx] IN
       \E ok \in (IF sysfs[p] = "ready" THEN {TRUE} ELSE BOOLEAN) :
          /\ hw' = Append(hw, Op("export", p, ok))
          /\ IF ok
             THEN /\ sysfs' = [sysfs EXCEPT ![p] = IF @ = "ready" THEN "ready" ELSE "pending"]
                  /\ pc' = "pin_poll" /\ result' = result
                  /\ elapsed' = 0 /\ polls' = 0
             ELSE /\ Return("Gpio")
                  /\ UNCHANGED <<sysfs, elapsed, polls>>
    /\ UNCHANGED <<mainVars, proc, pinIdx, sigVars, loopVars, shutdownCalls, stdout>>

\* one turn of `while !pin.is_exported()`: leave the loop, time out, or sleep 5 ms
setup_pin_poll ==
    /\ proc = "running" /\ pc = "pin_poll" /\ Variant # "old"
    /\ polls' = IF sysfs[PinOrder[pinIdx]] = "ready" THEN 0 ELSE polls + 1
    /\ IF sysfs[PinOrder[pinIdx]] = "ready"
       THEN pc' = "pin_dir" /\ elapsed' = 0 /\ UNCHANGED result
       ELSE IF elapsed > Timeout
            THEN Return("PinExportTimeout") /\ UNCHANGED elapsed
            ELSE /\ \E j \in 0..MaxJitter : elapsed' = elapsed + PollInterval + j
                 /\ UNCHANGED <<pc, result>>
    /\ UNCHANGED <<mainVars, proc, pinIdx, sysfs, hw, sigVars, loopVars,
                   shutdownCalls, stdout>>

\* setup_output_pin with set_value called before set_direction
setup_pin_direction_value_first ==
    /\ proc = "running" /\ pc = "pin_dir" /\ Variant # "old"
    /\ LET p == PinOrder[pinIdx] IN
       \E ok \in BOOLEAN :
          /\ hw' = IF IsOutput(p)
                   THEN hw \o <<Op("value", p, TRUE), Op("direction", p, ok)>>
                   ELSE Append(hw, Op("direction", p, ok))
          /\ IF ok THEN result' = result /\ NextPin
                   ELSE Return("Gpio") /\ pinIdx' = pinIdx
    /\ UNCHANGED <<mainVars, proc, elapsed, polls, sysfs, sigVars, loopVars,
                   shutdownCalls, stdout>>

\* pin.set_direction(Direction::Out) / pin.set_direction(Direction::In)
setup_pin_direction ==
    /\ proc = "running" /\ pc = "pin_dir" /\ Variant # "old"
    /\ LET p == PinOrder[pinIdx] IN
       \E ok \in BOOLEAN :
          /\ hw' = Append(hw, Op("direction", p, ok))
          /\ IF ok
             THEN /\ result' = result
                  /\ IF IsOutput(p) THEN pc' = "pin_val" /\ pinIdx' = pinIdx
                                    ELSE NextPin
             ELSE Return("Gpio") /\ pinIdx' = pinIdx
    /\ UNCHANGED <<mainVars, proc, elapsed, polls, sysfs, sigVars, loopVars,
                   shutdownCalls, stdout>>

\* pin.set_value(initial_value), output pins only
setup_output_pin_value ==
    /\ proc = "running" /\ pc = "pin_val" /\ Variant # "old"
    /\ LET p == PinOrder[pinIdx] IN
       \E ok \in BOOLEAN :
          /\ hw' = Append(hw, Op("value", p, ok))
          /\ IF ok THEN result' = result /\ NextPin
                   ELSE Return("Gpio") /\ pinIdx' = pinIdx
    /\ UNCHANGED <<mainVars, proc, elapsed, polls, sysfs, sigVars, loopVars,
                   shutdownCalls, stdout>>

\* Epd2in13::new: the panel's initialisation handshake
new_epd_init ==
    /\ proc = "running" /\ pc = "epd_new" /\ Variant # "old"
    /\ \E ok \in BOOLEAN :
          /\ hw' = Append(hw, Op("init", "-", ok))
          /\ IF ok
             THEN /\ pc' = IF Variant = "main" THEN "set_handler" ELSE "test_graphics"
                  /\ result' = result
             ELSE Return("DisplayInit")
    /\ UNCHANGED <<mainVars, proc, pinVars, sysfs, sigVars, loopVars,
                   shutdownCalls, stdout>>

\* the kernel makes /sys/class/gpio/gpioN appear some time after the export
kernel_ack(p) ==
    /\ proc = "running"
    /\ sysfs[p] = "pending"
    /\ sysfs' = [sysfs EXCEPT ![p] = "ready"]
    /\ UNCHANGED <<mainVars, proc, pc, result, pinVars, hw, sigVars, loopVars,
                   shutdownCalls, stdout>>

-----------------------------------------------------------------------------
\* EpaperApp::run of main.rs

\* Arc<AtomicBool>::new(true) and ctrlc::set_handler(..).expect(..)
run_set_handler ==
    /\ proc = "running" /\ pc = "set_handler" /\ Variant = "main"
    /\ \E ok \in BOOLEAN :
          IF ok
          THEN /\ handler' = TRUE /\ running' = TRUE
               /\ pc' = "initial_push"
               /\ UNCHANGED <<proc, result>>
          ELSE Panic /\ UNCHANGED <<handler, running>>
    /\ UNCHANGED <<mainVars, pinVars, sysfs, hw, hpc, signals, pushesAfterStop,
                   loopVars, shutdownCalls, stdout>>

\* display.clear(White) and the call of update_and_display_frame (full refresh)
run_initial_push_begin ==
    /\ proc = "running" /\ pc = "initial_push" /\ Variant = "main"
    /\ pc' = "initial_pushing"
    /\ frame' = Blank
    /\ pushesAfterStop' = IF running THEN pushesAfterStop ELSE pushesAfterStop + 1
    /\ UNCHANGED <<mainVars, proc, result, pinVars, sysfs, hw, running, handler,
                   hpc, signals, refresh, i, cycles, shutdownCalls, stdout>>

\* the initial push with its error dropped instead of returned
run_initial_push_end_ignore_err ==
    /\ proc = "running" /\ pc = "initial_pushing" /\ Variant = "main"
    /\ \E ok \in BOOLEAN :
          /\ hw' = Append(hw, Op("push", refresh, ok))
          /\ pc' = "set_refresh" /\ result' = result
    /\ UNCHANGED <<mainVars, proc, pinVars, sysfs, sigVars, loopVars,
                   shutdownCalls, stdout>>

\* update_and_display_frame returns; `?` leaves run on an SPI error
run_initial_push_end ==
    /\ proc = "running" /\ pc = "initial_pushing" /\ Variant = "main"
    /\ \E ok \in BOOLEAN :
          /\ hw' = Append(hw, Op("push", refresh, ok))
          /\ IF ok THEN pc' = "set_refresh" /\ result' = result
                   ELSE Return("Spi")
    /\ UNCHANGED <<mainVars, proc, pinVars, sysfs, sigVars, loopVars,
                   shutdownCalls, stdout>>

\* println!("Running spinner...") and epd.set_refresh(Quick).unwrap()
run_set_refresh ==
    /\ proc = "running" /\ pc = "set_refresh" /\ Variant = "main"
    /\ stdout' = Append(stdout, "Running spinner")
    /\ \E ok \in BOOLEAN :
          /\ hw' = Append(hw, Op("set_refresh", "Quick", ok))
          /\ IF ok
             THEN /\ refresh' = "Quick"
                  /\ pc' = "clear_frame"
                  /\ UNCHANGED <<proc, result>>
             ELSE Panic /\ refresh' = refresh
    /\ UNCHANGED <<mainVars, pinVars, sysfs, sigVars, i, cycles, frame, shutdownCalls>>

\* epd.clear_frame(..).unwrap()
run_clear_frame ==
    /\ proc = "running" /\ pc = "clear_frame" /\ Variant = "main"
    /\ \E ok \in BOOLEAN :
          /\ hw' = Append(hw, Op("clear_frame", "-", ok))
          /\ IF ok THEN pc' = "loop_check" /\ UNCHANGED <<proc, result>>
                   ELSE Panic
    /\ UNCHANGED <<mainVars, pinVars, sysfs, sigVars, loopVars, shutdownCalls, stdout>>

\* the loop of run as a counted loop that never loads the flag
run_loop_check_counted ==
    /\ proc = "running" /\ pc = "loop_check" /\ Variant = "main"
    /\ pc' = IF cycles < MaxCycles THEN "push" ELSE "shutdown"
    /\ UNCHANGED <<mainVars, proc, result, pinVars, sysfs, hw, sigVars, loopVars,
                   shutdownCalls, stdout>>

\* `while running.load(SeqCst)`: compose the next frame, or leave the loop;
\* run then returns Ok(()) and its caller goes on to app.shutdown()
run_loop_check ==
    /\ proc = "running" /\ pc = "loop_check" /\ Variant = "main"
    /\ running => cycles < MaxCycles
    /\ pc' = IF running THEN "push" ELSE "shutdown"
    /\ IF running
       THEN \E t \in Times :
               LET time_str == FormatTime(t) IN
               frame' = Frame("spinner", Spinner[(i % SpinnerLen) + 1],
                              time_str, TimeX(time_str))
       ELSE frame' = frame
    /\ UNCHANGED <<mainVars, proc, result, pinVars, sysfs, hw, sigVars, refresh,
                   i, cycles, shutdownCalls, stdout>>

\* the call of update_and_display_frame inside the loop
run_push_begin ==
    /\ proc = "running" /\ pc = "push" /\ Variant = "main"
    /\ pc' = "pushing"
    /\ pushesAfterStop' = IF running THEN pushesAfterStop ELSE pushesAfterStop + 1
    /\ UNCHANGED <<mainVars, proc, result, pinVars, sysfs, hw, running, handler,
                   hpc, signals, loopVars, shutdownCalls, stdout>>

\* the loop push without `i = (i + 1) % spinner.len()`
run_push_end_no_advance ==
    /\ proc = "running" /\ pc = "pushing" /\ Variant = "main"
    /\ \E ok \in BOOLEAN :
          /\ hw' = Append(hw, Op("push", refresh, ok))
          /\ IF ok
             THEN /\ cycles' = cycles + 1
                  /\ pc' = "frame_sleep" /\ result' = result
             ELSE Return("Spi") /\ cycles' = cycles
    /\ UNCHANGED <<mainVars, proc, pinVars, sysfs, sigVars, refresh, i, frame,
                   shutdownCalls, stdout>>

\* the loop push with a failed push logged and the loop continued
run_push_end_retry ==
    /\ proc = "running" /\ pc = "pushing" /\ Variant = "main"
    /\ \E ok \in BOOLEAN :
          /\ hw' = Append(hw, Op("push", refresh, ok))
          /\ i' = IF ok THEN (i + 1) % SpinnerLen ELSE i
          /\ cycles' = cycles + 1
          /\ pc' = "frame_sleep" /\ result' = result
    /\ UNCHANGED <<mainVars, proc, pinVars, sysfs, sigVars, refresh, frame,
                   shutdownCalls, stdout>>

\* the push returns: on Ok advance the spinner, on Err leave run with `?`
run_push_end ==
    /\ proc = "running" /\ pc = "pushing" /\ Variant = "main"
    /\ \E ok \in BOOLEAN :
          /\ hw' = Append(hw, Op("push", refresh, ok))
          /\ IF ok
             THEN /\ i' = (i + 1) % SpinnerLen
                  /\ cycles' = cycles + 1
                  /\ pc' = "frame_sleep" /\ result' = result
             ELSE Return("Spi") /\ UNCHANGED <<i, cycles>>
    /\ UNCHANGED <<mainVars, proc, pinVars, sysfs, sigVars, refresh, frame,
                   shutdownCalls, stdout>>

\* thread::sleep(500 ms) ends
run_frame_sleep ==
    /\ proc = "running" /\ pc = "frame_sleep" /\ Variant = "main"
    /\ pc' = "loop_check"
    /\ UNCHANGED <<mainVars, proc, result, pinVars, sysfs, hw, sigVars, loopVars,
                   shutdownCalls, stdout>>

-----------------------------------------------------------------------------
\* interrupt signal

\* the handler flipping the flag instead of storing false
ctrlc_handler_toggle ==
    /\ proc = "running" /\ handler /\ hpc = "idle"
    /\ signals < MaxSignals
    /\ signals' = signals + 1
    /\ running' = ~running
    /\ hpc' = "print"
    /\ UNCHANGED <<mainVars, proc, pc, result, pinVars, sysfs, hw, handler,
                   pushesAfterStop, loopVars, shutdownCalls, stdout>>

\* the ctrlc thread runs the handler: r.store(false, SeqCst) ...
ctrlc_handler_store ==
    /\ proc = "running" /\ handler /\ hpc = "idle"
    /\ signals < MaxSignals
    /\ signals' = signals + 1
    /\ running' = FALSE
    /\ hpc' = "print"
    /\ UNCHANGED <<mainVars, proc, pc, result, pinVars, sysfs, hw, handler,
                   pushesAfterStop, loopVars, shutdownCalls, stdout>>

\* ... then println!("Received Ctrl+C, shutting down...")
ctrlc_handler_print ==
    /\ proc = "running" /\ hpc = "print"
    /\ stdout' = Append(stdout, "Received Ctrl+C")
    /\ hpc' = "idle"
    /\ UNCHANGED <<mainVars, proc, pc, result, pinVars, sysfs, hw, running,
                   handler, signals, pushesAfterStop, loopVars, shutdownCalls>>

\* no handler installed: the default action of SIGINT ends the process
sigint_default ==
    /\ proc = "running" /\ ~handler
    /\ signals < MaxSignals
    /\ signals' = signals + 1
    /\ proc' = "killed"
    /\ UNCHANGED <<mainVars, pc, result, pinVars, sysfs, hw, running, handler,
                   hpc, pushesAfterStop, loopVars, shutdownCalls, stdout>>

-----------------------------------------------------------------------------
\* EpaperApp::shutdown

\* shutdown with the chip-select line unexported before the sleep command
ShutdownReleaseFirst(releasesPins) ==
    /\ proc = "running" /\ pc = "shutdown"
    /\ stdout' = Append(stdout, "Shutting down display")
    /\ shutdownCalls' = shutdownCalls + 1
    /\ \E ok \in BOOLEAN :
          /\ hw' = IF releasesPins
                   THEN hw \o <<Op("unexport", "cs", TRUE), Op("sleep", "-", ok)>>
                   ELSE Append(hw, Op("sleep", "-", ok))
          /\ IF ok
             THEN IF releasesPins
                  THEN pc' = "unexport" /\ pinIdx' = 2 /\ result' = result
                  ELSE Return("Ok") /\ pinIdx' = pinIdx
             ELSE Return("Spi") /\ pinIdx' = pinIdx
    /\ UNCHANGED <<mainVars, proc, elapsed, polls, sysfs, sigVars, loopVars>>

\* println!("Shutting down display..."); self.epd.sleep(..)?; what follows
\* the sleep depends on the variant
ShutdownSleep(releasesPins) ==
    /\ proc = "running" /\ pc = "shutdown"
    /\ stdout' = Append(stdout, "Shutting down display")
    /\ shutdownCalls' = shutdownCalls + 1
    /\ \E ok \in BOOLEAN :
          /\ hw' = Append(hw, Op("sleep", "-", ok))
          /\ IF ok
             THEN IF releasesPins
                  THEN pc' = "unexport" /\ pinIdx' = 1 /\ result' = result
                  ELSE Return("Ok") /\ pinIdx' = pinIdx
             ELSE Return("Spi") /\ pinIdx' = pinIdx
    /\ UNCHANGED <<mainVars, proc, elapsed, polls, sysfs, sigVars, loopVars>>

\* main.rs: epd.sleep(..)?; the unexport calls are commented out
shutdown ==
    /\ Variant = "main"
    /\ ShutdownSleep(FALSE)

\* new.rs: epd.sleep(..)?; then the four unexport().ok() calls
shutdown_new ==
    /\ Variant = "new"
    /\ ShutdownSleep(TRUE)

\* new.rs: self.<pin>.unexport().ok(): writes only when the line is exported,
\* and an error of the write is dropped
shutdown_unexport ==
    /\ proc = "running" /\ pc = "unexport" /\ Variant = "new"
    /\ LET p == ShutdownOrder[pinIdx] IN
       \E ok \in (IF sysfs[p] = "ready" THEN BOOLEAN ELSE {TRUE}) :
          /\ hw' = Append(hw, Op("unexport", p, ok))
          /\ sysfs' = IF ok THEN [sysfs EXCEPT ![p] = IF @ = "ready" THEN "none" ELSE @]
                            ELSE sysfs
          /\ IF pinIdx < Len(ShutdownOrder)
             THEN pinIdx' = pinIdx + 1 /\ UNCHANGED <<pc, result>>
             ELSE pinIdx' = pinIdx /\ Return("Ok")
    /\ UNCHANGED <<mainVars, proc, elapsed, polls, sigVars, loopVars,
                   shutdownCalls, stdout>>

-----------------------------------------------------------------------------
\* EpaperApp::run of new.rs

\* test_graphics: draws into the framebuffer only, then test_spinner starts
run_test_graphics ==
    /\ proc = "running" /\ pc = "test_graphics" /\ Variant = "new"
    /\ stdout' = Append(stdout, "Testing graphics")
    /\ pc' = "spinner_initial_push"
    /\ frame' = Frame("graphics", "", <<>>, 0)
    /\ UNCHANGED <<mainVars, proc, result, pinVars, sysfs, hw, sigVars, refresh,
                   i, cycles, shutdownCalls>>

\* test_spinner: clear and the first update_and_display_frame
test_spinner_initial_push ==
    /\ proc = "running" /\ pc = "spinner_initial_push" /\ Variant = "new"
    /\ stdout' = Append(stdout, "Testing spinner")
    /\ frame' = Blank
    /\ \E ok \in BOOLEAN :
          /\ hw' = Append(hw, Op("push", refresh, ok))
          /\ IF ok THEN pc' = "spinner_loop" /\ result' = result
                   ELSE Return("Spi")
    /\ UNCHANGED <<mainVars, proc, pinVars, sysfs, sigVars, refresh, i, cycles,
                   shutdownCalls>>

\* test_spinner: one turn of `for i in 0..10`, or the end of the loop, after
\* which run returns Ok(()) and its caller goes on to app.shutdown()
test_spinner_push ==
    /\ proc = "running" /\ pc = "spinner_loop" /\ Variant = "new"
    /\ IF i < SpinnerIters
       THEN \E ok \in BOOLEAN :
               /\ frame' = Frame("spinner", Spinner[(i % SpinnerLen) + 1], <<>>, 0)
               /\ hw' = Append(hw, Op("push", refresh, ok))
               /\ IF ok THEN i' = i + 1 /\ UNCHANGED <<pc, result>>
                        ELSE Return("Spi") /\ i' = i
       ELSE pc' = "shutdown" /\ UNCHANGED <<hw, result, i, frame>>
    /\ UNCHANGED <<mainVars, proc, pinVars, sysfs, sigVars, refresh, cycles,
                   shutdownCalls, stdout>>

-----------------------------------------------------------------------------
\* old.rs

\* main: thread::spawn of the UI thread, not joined
old_main_spawn ==
    /\ proc = "running" /\ mpc = "start" /\ entry = "old"
    /\ mpc' = "rt_new"
    /\ pc' = "eink_spi"
    /\ UNCHANGED <<entry, proc, conns, result, pinVars, sysfs, hw, sigVars,
                   loopVars, shutdownCalls, stdout>>

\* main: tokio::runtime::Runtime::new()?
old_main_runtime ==
    /\ proc = "running" /\ mpc = "rt_new"
    /\ \E ok \in BOOLEAN :
          IF ok THEN mpc' = "bind" /\ proc' = proc
                ELSE mpc' = "exited" /\ proc' = "exit_err"
    /\ UNCHANGED <<entry, conns, pc, result, pinVars, sysfs, hw, sigVars,
                   loopVars, shutdownCalls, stdout>>

\* websocket_echo: TcpListener::bind(..).await?
websocket_echo_bind ==
    /\ proc = "running" /\ mpc = "bind"
    /\ \E ok \in BOOLEAN :
          IF ok THEN /\ mpc' = "accept" /\ proc' = proc
                     /\ stdout' = Append(stdout, "WebSocket listening")
                ELSE /\ mpc' = "exited" /\ proc' = "exit_err"
                     /\ stdout' = stdout
    /\ UNCHANGED <<entry, conns, pc, result, pinVars, sysfs, hw, sigVars,
                   loopVars, shutdownCalls>>

\* websocket_echo: `while let Ok(..) = listener.accept().await`; when accept
\* fails the loop ends, websocket_echo returns Ok(()) and so does main
websocket_echo_accept ==
    /\ proc = "running" /\ mpc = "accept"
    /\ \E ok \in BOOLEAN :
          IF ok THEN /\ conns < MaxConns
                     /\ conns' = conns + 1
                     /\ UNCHANGED <<mpc, proc>>
                ELSE /\ mpc' = "exited" /\ proc' = "exit_ok"
                     /\ conns' = conns
    /\ UNCHANGED <<entry, pc, result, pinVars, sysfs, hw, sigVars, loopVars,
                   shutdownCalls, stdout>>

\* eink_hello: SpidevDevice::open(..)? and spi.configure(..)?
eink_hello_spi ==
    /\ proc = "running" /\ pc = "eink_spi" /\ Variant = "old"
    /\ \E okOpen \in BOOLEAN, okConf \in BOOLEAN :
          /\ hw' = IF okOpen
                   THEN hw \o <<Op("spi_open", "-", TRUE), Op("spi_configure", "-", okConf)>>
                   ELSE Append(hw, Op("spi_open", "-", FALSE))
          /\ IF okOpen /\ okConf THEN pc' = "pin_export" /\ result' = result
                                 ELSE pc' = "eink_ret" /\ result' = "Err"
    /\ UNCHANGED <<mainVars, proc, pinVars, sysfs, sigVars, loopVars,
                   shutdownCalls, stdout>>

\* export_pin: SysfsPin::new + pin.export()?
export_pin ==
    /\ proc = "running" /\ pc = "pin_export" /\ Variant = "old"
    /\ LET p == PinOrder[pinIdx] IN
       \E ok \in (IF sysfs[p] = "ready" THEN {TRUE} ELSE BOOLEAN) :
          /\ hw' = Append(hw, Op("export", p, ok))
          /\ IF ok
             THEN /\ sysfs' = [sysfs EXCEPT ![p] = IF @ = "ready" THEN "ready" ELSE "pending"]
                  /\ pc' = "pin_poll" /\ result' = result
             ELSE /\ pc' = "eink_ret" /\ result' = "Err"
                  /\ sysfs' = sysfs
          /\ polls' = 0
    /\ UNCHANGED <<mainVars, proc, pinIdx, elapsed, sigVars, loopVars,
                   shutdownCalls, stdout>>

\* export_pin: one turn of `while !pin.is_exported() { sleep(10 ms) }`; there
\* is no clock and no way out of the loop but the line becoming ready
export_pin_poll ==
    /\ proc = "running" /\ pc = "pin_poll" /\ Variant = "old"
    /\ IF sysfs[PinOrder[pinIdx]] = "ready"
       THEN pc' = "pin_dir" /\ polls' = 0
       ELSE polls < PollCap /\ polls' = polls + 1 /\ pc' = pc
    /\ UNCHANGED <<mainVars, proc, result, pinIdx, elapsed, sysfs, hw, sigVars,
                   loopVars, shutdownCalls, stdout>>

\* export_pin: sleep(100 ms), pin.set_direction(dir)?; no value is written
export_pin_direction ==
    /\ proc = "running" /\ pc = "pin_dir" /\ Variant = "old"
    /\ LET p == PinOrder[pinIdx] IN
       \E ok \in BOOLEAN :
          /\ hw' = Append(hw, Op("direction", p, ok))
          /\ IF ok THEN result' = result /\ NextPin
                   ELSE pc' = "eink_ret" /\ result' = "Err" /\ pinIdx' = pinIdx
    /\ UNCHANGED <<mainVars, proc, elapsed, polls, sysfs, sigVars, loopVars,
                   shutdownCalls, stdout>>

\* one panel call of eink_hello followed by `?`
EinkStep(at, op, arg, next) ==
    /\ proc = "running" /\ pc = at /\ Variant = "old"
    /\ \E ok \in BOOLEAN :
          /\ hw' = Append(hw, Op(op, arg, ok))
          /\ IF ok THEN pc' = next /\ result' = IF next = "eink_ret" THEN "Ok" ELSE result
                   ELSE pc' = "eink_ret" /\ result' = "Err"
    /\ UNCHANGED <<mainVars, proc, pinVars, sysfs, sigVars, refresh, i, cycles,
                   shutdownCalls>>

\* Epd2in13::new(..)?, then the text is drawn into the framebuffer
eink_hello_epd_new ==
    /\ EinkStep("epd_new", "init", "-", "update_frame")
    /\ frame' = IF pc' = "update_frame" THEN Frame("text", "", <<>>, 30) ELSE frame
    /\ stdout' = stdout

\* println!("sleeping now"); epd.update_frame(..)?
eink_hello_update_frame ==
    /\ EinkStep("update_frame", "update_frame", refresh, "display_frame")
    /\ frame' = frame
    /\ stdout' = Append(stdout, "sleeping now")

\* epd.display_frame(..)?
eink_hello_display_frame ==
    /\ EinkStep("display_frame", "push", refresh, "eink_sleep")
    /\ frame' = frame
    /\ stdout' = stdout

\* epd.sleep(..)?; Ok(())
eink_hello_sleep ==
    /\ EinkStep("eink_sleep", "sleep", "-", "eink_ret")
    /\ frame' = frame
    /\ stdout' = stdout

\* the spawned closure: eprintln! on Err, then the thread ends
old_ui_thread_end ==
    /\ proc = "running" /\ pc = "eink_ret" /\ Variant = "old"
    /\ pc' = "returned"
    /\ stdout' = IF result = "Ok" THEN stdout ELSE Append(stdout, "e-Ink error")
    /\ UNCHANGED <<mainVars, proc, result, pinVars, sysfs, hw, sigVars, loopVars,
                   shutdownCalls>>

Next ==
    \/ run_epaper_app
    \/ run_epaper_threaded_spawn
    \/ main_return
    \/ new_spi_open
    \/ new_spi_configure
    \/ setup_pin_export
    \/ setup_pin_poll
    \/ setup_pin_direction
    \/ setup_output_pin_value
    \/ new_epd_init
    \/ \E p \in Pins : kernel_ack(p)
    \/ run_set_handler
    \/ run_initial_push_begin
    \/ run_initial_push_end
    \/ run_set_refresh
    \/ run_clear_frame
    \/ run_loop_check
    \/ run_push_begin
    \/ run_push_end
    \/ run_frame_sleep
    \/ ctrlc_handler_store
    \/ ctrlc_handler_print
    \/ sigint_default
    \/ shutdown
    \/ shutdown_new
    \/ shutdown_unexport
    \/ run_test_graphics
    \/ test_spinner_initial_push
    \/ test_spinner_push
    \/ old_main_spawn
    \/ old_main_runtime
    \/ websocket_echo_bind
    \/ websocket_echo_accept
    \/ eink_hello_spi
    \/ export_pin
    \/ export_pin_poll
    \/ export_pin_direction
    \/ eink_hello_epd_new
    \/ eink_hello_update_frame
    \/ eink_hello_display_frame
    \/ eink_hello_sleep
    \/ old_ui_thread_end

Spec == Init /\ [][Next]_vars

-----------------------------------------------------------------------------
\* helpers of the properties

Idx == 1..Len(hw)

\* EpaperApp::new returned Ok: the panel handshake succeeded
NewSucceeded == Variant # "old" /\ \E k \in Idx : hw[k] = Op("init", "-", TRUE)

\* main returned or the process panicked (not: killed by a signal)
ProcessEnded == proc \in {"exit_ok", "exit_err", "panic"}

Count(op, arg) == Cardinality({k \in Idx : hw[k].op = op /\ hw[k].arg = arg})

NoFailure == \A k \in Idx : hw[k].ok

\* pushes, the sleep command and pin releases, in the order they happened
PanelOps == SelectSeq(hw, LAMBDA e : e.op \in {"push", "sleep", "unexport"})

\* time spent so far waiting for the current line to become ready
Waited == IF Variant = "old" THEN polls * OldPollInterval ELSE elapsed

MaxPolls == Timeout \div PollInterval + 2

-----------------------------------------------------------------------------
\* C1: once the handler has stored false into `running`, run of main.rs issues
\* at most one more update_and_display_frame call, and the next evaluation of
\* the loop condition leaves the loop towards shutdown.
C1_AtMostOnePushAfterStop ==
    /\ [](pushesAfterStop <= 1)
    /\ [][(pc = "loop_check" /\ ~running /\ pc' # pc) => pc' = "shutdown"]_vars

C1_Witness == pushesAfterStop = 1 /\ pc = "shutdown" /\ cycles >= 1

\* C2: in every run of run_epaper_app (main.rs) in which new succeeded,
\* shutdown has been called exactly once when the process ends.
C2_ShutdownExactlyOnce ==
    (Variant = "main" /\ NewSucceeded /\ ProcessEnded) => shutdownCalls = 1

\* C3: when the process ends after a successful new, each of the four GPIO
\* lines has been unexported exactly once and none is still exported.
C3_PinsReleasedOnce ==
    (NewSucceeded /\ ProcessEnded) =>
        \A p \in Pins : sysfs[p] = "none" /\ Count("unexport", p) = 1

\* C5: every pin acquisition waits a bounded time for the line to become
\* ready: at most Timeout plus one polling interval, in a bounded number of
\* polls, and a wait that ran out ends with PinExportTimeout.
C5_AcquireBounded ==
    /\ polls <= MaxPolls
    /\ pc = "pin_poll" => Waited <= Timeout + PollInterval + MaxJitter

\* C6: a run of main.rs without hardware failure that was stopped after N loop
\* cycles performed exactly one full-refresh push, N quick pushes, one sleep
\* command and then the release of all four pins.
C6_EndToEnd ==
    (Variant = "main" /\ proc = "exit_ok" /\ NoFailure) =>
        /\ Len(PanelOps) = cycles + 6
        /\ PanelOps[1] = Op("push", "Full", TRUE)
        /\ \A k \in 2..(cycles + 1) : PanelOps[k] = Op("push", "Quick", TRUE)
        /\ PanelOps[cycles + 2] = Op("sleep", "-", TRUE)
        /\ {PanelOps[k].arg : k \in (cycles + 3)..(cycles + 6)} = Pins
        /\ \A k \in (cycles + 3)..(cycles + 6) : PanelOps[k].op = "unexport"

\* C7: when epd.sleep fails inside shutdown, shutdown still returns Ok and
\* still releases all four pins.
C7_SleepBestEffort ==
    (Variant # "old" /\ pc = "returned" /\ shutdownCalls = 1
       /\ Op("sleep", "-", FALSE) \in {hw[k] : k \in Idx}) =>
        /\ result = "Ok"
        /\ \A p \in Pins : Count("unexport", p) >= 1

\* C8: when main returns in an entry point that runs the display on a spawned
\* thread, that thread is not between its first hardware call and the end of
\* its shutdown path.
C8_JoinBeforeExit ==
    (Threaded /\ proc \in {"exit_ok", "exit_err"}) =>
        ~(hw # <<>> /\ pc \notin {"eink_ret", "returned"})

\* C9: the sleep command is the last panel interaction: after it nothing but
\* pin releases happens, and every pin release comes after a sleep command.
C9_SleepLast ==
    /\ \A k \in Idx : hw[k].op = "sleep" =>
          \A m \in Idx : m > k => hw[m].op = "unexport"
    /\ \A m \in Idx : hw[m].op = "unexport" =>
          \E k \in Idx : k < m /\ hw[k].op = "sleep"

C9_Witness ==
    /\ Variant = "new" /\ pc = "returned" /\ result = "Ok"
    /\ \A p \in Pins : Count("unexport", p) = 1

\* C10: a value write on a line comes directly after the successful direction
\* write of that line; no value write precedes it or follows a failed one.
C10_ValueAfterDirection ==
    \A k \in Idx : hw[k].op = "value" =>
        k > 1 /\ hw[k - 1] = Op("direction", hw[k].arg, TRUE)

C10_Witness ==
    /\ Op("value", "rst", TRUE) \in {hw[k] : k \in Idx}
    /\ Op("direction", "busy", TRUE) \in {hw[k] : k \in Idx}

-----------------------------------------------------------------------------
PushIdx == {k \in Idx : hw[k].op = "push"}

\* a full-refresh push has completed successfully before call k
FullPushedBefore(k) == \E m \in Idx : m < k /\ hw[m] = Op("push", "Full", TRUE)

\* C11: the glyph drawn in loop cycle n is spinner[n mod 4], and the phase
\* counter i of run stays within 0..3.
C11_SpinnerPeriodic ==
    /\ Variant = "main" => i \in 0..(SpinnerLen - 1)
    /\ (Variant = "main" /\ pc \in {"push", "pushing"}) =>
          frame.glyph = Spinner[(cycles % SpinnerLen) + 1]
    /\ (Variant = "new" /\ frame.kind = "spinner") =>
          frame.glyph = Spinner[((Cardinality(PushIdx) - 2) % SpinnerLen) + 1]

C11_Witness ==
    Variant = "main" /\ pc = "pushing" /\ cycles = SpinnerLen /\ frame.glyph = "|"

\* C12: the x origin of the time readout is the panel width minus the glyph
\* count times the glyph width of the font draw_text renders with, and is
\* never negative.
C12_RightAligned ==
    (Variant = "main" /\ frame.kind = "spinner") =>
        /\ frame.x = PanelWidth - Len(frame.time) * FontWidth
        /\ frame.x >= 0

\* C13: a step of the interrupt handler changes nothing but the flag (and the
\* handler's own position): it prints nothing and touches no hardware.
C13_HandlerOnlyStores ==
    [][(hpc' # hpc) => (stdout' = stdout /\ hw' = hw /\ pc' = pc /\ frame' = frame)]_vars

\* C15: in run of main.rs the first push is a full-refresh push of a cleared
\* framebuffer, the mode is switched to Quick once and only after a
\* successful full push, and every later push is a Quick push.
C15_FullBeforeQuick ==
    Variant = "main" =>
        /\ pc = "initial_pushing" => frame = Blank
        /\ \A k \in PushIdx :
              IF \A m \in PushIdx : m >= k
              THEN hw[k].arg = "Full"
              ELSE hw[k].arg = "Quick" /\ FullPushedBefore(k)
        /\ \A k \in Idx : hw[k].op = "set_refresh" =>
              /\ FullPushedBefore(k)
              /\ \A m \in Idx : hw[m].op = "set_refresh" => m = k

C15_Witness ==
    /\ Variant = "main" /\ cycles >= 2
    /\ Op("set_refresh", "Quick", TRUE) \in {hw[k] : k \in Idx}

\* C16: a failed update_and_display_frame is the last push of the run: run
\* has returned the SPI error and the spinner phase counts only the pushes
\* that succeeded.
C16_PushFailureFatal ==
    \A k \in PushIdx : (Variant # "old" /\ ~hw[k].ok) =>
        /\ \A m \in PushIdx : m <= k
        /\ pc = "returned" /\ result = "Spi"
        /\ Variant = "main" =>
              i = Cardinality({m \in PushIdx : hw[m] = Op("push", "Quick", TRUE)}) % SpinnerLen
        /\ Variant = "new" =>
              i = Cardinality({m \in PushIdx : m > 1 /\ hw[m].ok /\ FullPushedBefore(m)})

C16_Witness ==
    /\ Variant = "main" /\ cycles >= 1 /\ Len(hw) > 0
    /\ hw[Len(hw)] = Op("push", "Quick", FALSE)

\* C17: when new fails after exporting lines, every line it exported has been
\* released when the process ends.
C17_FailedNewReleases ==
    (Variant # "old" /\ ProcessEnded /\ ~NewSucceeded) =>
        \A p \in Pins : Op("export", p, TRUE) \in {hw[k] : k \in Idx} => sysfs[p] = "none"

\* C18: the flag is true when the handler is installed, only the handler's
\* store writes it, and once false it stays false.
C18_FlagMonotone ==
    /\ [][(handler' /\ ~handler) => running']_vars
    /\ [][(handler /\ ~running) => ~running']_vars
    /\ [][(handler /\ running' # running) => (hpc = "idle" /\ hpc' = "print" /\ ~running')]_vars

C18_Witness == signals = 2 /\ ~running /\ hpc = "idle" /\ pc = "shutdown"

\* C19: an interrupt never ends the process of main.rs by the default signal
\* action once new has exported a line.
C19_NoKillWindow ==
    (Variant = "main" /\ proc = "killed") =>
        \A p \in Pins : Op("export", p, TRUE) \notin {hw[k] : k \in Idx}
====
